---- MODULE Spec2Model ----
(***************************************************************************)
(* State-machine model of examples/ble_xg27_midi/ble_xg27_midi.ino: the    *)
(* MIDI note capture (handleNoteOn / handleNoteOff), the main loop, the    *)
(* BLE-MIDI packet encoders (midi_note_on / midi_note_off) and the radio   *)
(* stack event handler (sl_bt_on_event) with ble_initialize_gatt_db and    *)
(* ble_start_advertising.                                                  *)
(*                                                                         *)
(* The radio stack is the environment.  It delivers lifecycle events,      *)
(* returns a status from every call, and records the calls it receives in  *)
(* the logs `calls` (advertiser / GATT database) and `sent`                *)
(* (notifications).  Both logs hold the calls of the last step only.       *)
(***************************************************************************)
EXTENDS Integers, Sequences, FiniteSets, TLC

\* ------------------------------------------------------------------ bounds
\* How many times the stack delivers the boot event.
MaxBoots == 2
\* How many producer calls of one kind may arrive between two loop iterations.
MaxProducerCalls == 3
\* Connection handles the stack hands out are 1..MaxHandle.
MaxHandle == 2
MaxIsrCalls == 3

\* --------------------------------------------------------- program constants
\* conn_handle's initial value, the "none" sentinel (0xFF).
NoneHandle == 255
\* advertising_set_handle's initial value (0xff).
NoSet == 255
\* The length passed to sl_bt_gatt_server_send_notification.
NotifyLen == 5
\* The max length the MIDI characteristic is created with.
MidiCharMaxLen == 1
\* sizeof(advertised_name) - 1, the length of the device name.
NameLen == 16
\* Status bytes.
StatusNoteOn == 144
StatusNoteOff == 128

\* ------------------------------------------------------------ input domains
Handles == 1..MaxHandle
\* The handle sl_bt_advertiser_create_set writes on success.
AdvSets == {0, 1}
\* (pitch, velocity) pairs the MIDI library passes to the callbacks.
NoteArgs == {<<10, 5>>, <<42, 127>>}
\* Values of sl_sleeptimer_tick_to_ms(tick): a uint32_t, written as its high
\* and low 16-bit words <<hi, lo>> (the value is hi * 65536 + lo).
Times == {<<0, 0>>, <<0, 64>>, <<0, 8191>>, <<3, 8392>>, <<65535, 65471>>}
\* Statuses a stack call returns.
SL_STATUS_OK == "SL_STATUS_OK"
SL_STATUS_FAIL == "SL_STATUS_FAIL"
\* The stack has no open connection: the stack's invalid connection handle.
NoLink == NoneHandle
\* No producer call seen yet.
NoArgs == <<>>

\* ------------------------------------------------------- integer arithmetic
RECURSIVE BitAnd(_, _)
BitAnd(a, b) ==
    IF a = 0 \/ b = 0 THEN 0
    ELSE (a % 2) * (b % 2) + 2 * BitAnd(a \div 2, b \div 2)

RECURSIVE BitOr(_, _)
BitOr(a, b) ==
    IF a = 0 THEN b
    ELSE IF b = 0 THEN a
    ELSE (IF a % 2 = 1 \/ b % 2 = 1 THEN 1 ELSE 0) + 2 * BitOr(a \div 2, b \div 2)

RECURSIVE Pow2(_)
Pow2(n) == IF n = 0 THEN 1 ELSE 2 * Pow2(n - 1)

\* a >> n
Shr(a, n) == a \div Pow2(n)

\* Conversion to uint8_t on assignment.
U8(x) == x % 256

\* a & m on uint32_t values given as <<hi, lo>> words.
And32(a, m) == <<BitAnd(a[1], m[1]), BitAnd(a[2], m[2])>>
\* The integer a uint32_t below 2^31 stands for.
Value32(a) == a[1] * 65536 + a[2]

\* ------------------------------------------------------------------ encoder
\* temp = temp & 0x00001fff
MaskedTimestamp(nowMillis) == Value32(And32(nowMillis, <<0, 8191>>))

\* header = 0x80 | (temp >> 7), stored in a uint8_t
HeaderByte_shift6(temp) == U8(BitOr(128, Shr(temp, 6)))
HeaderByte(temp) == U8(BitOr(128, Shr(temp, 7)))

\* timestamp = 0x80 | (temp & 0x003f), stored in a uint8_t
TimestampByte_mask7(temp) == U8(BitOr(128, BitAnd(temp, 127)))
TimestampByte(temp) == U8(BitOr(128, BitAnd(temp, 63)))

\* The five bytes of midi_data_t, in the order of midi_event_packet_t.
Payload(header, timestamp, status, note, velocity) ==
    <<header, timestamp, status, note, velocity>>

\* midi_note_on(note, velocity): the notification it hands to the stack.
\* `fn`, `note`, `velocity` and `now` record the call itself.
midi_note_on_swapped(note, velocity, now, conn) ==
    [fn |-> "midi_note_on", note |-> note, velocity |-> velocity, now |-> now,
     conn |-> conn, len |-> NotifyLen,
     payload |-> Payload(HeaderByte(MaskedTimestamp(now)),
                         TimestampByte(MaskedTimestamp(now)),
                         StatusNoteOn, U8(velocity), U8(note))]
midi_note_on(note, velocity, now, conn) ==
    [fn |-> "midi_note_on", note |-> note, velocity |-> velocity, now |-> now,
     conn |-> conn, len |-> NotifyLen,
     payload |-> Payload(HeaderByte(MaskedTimestamp(now)),
                         TimestampByte(MaskedTimestamp(now)),
                         StatusNoteOn, U8(note), U8(velocity))]

\* midi_note_off(note, velocity): the notification it hands to the stack.
midi_note_off(note, velocity, now, conn) ==
    [fn |-> "midi_note_off", note |-> note, velocity |-> velocity, now |-> now,
     conn |-> conn, len |-> NotifyLen,
     payload |-> Payload(HeaderByte(MaskedTimestamp(now)),
                         TimestampByte(MaskedTimestamp(now)),
                         StatusNoteOff, U8(note), U8(velocity))]

\* ------------------------------------------------------------------- state
VARIABLES
    conn_handle,            \* static uint8_t conn_handle
    note_to_send,           \* byte note_to_send
    note_velocity,          \* byte note_velocity
    note_on_event,          \* volatile bool note_on_event
    note_off_event,         \* volatile bool note_off_event
    init,                   \* ble_start_advertising: static bool init
    advertising_set_handle, \* ble_start_advertising: static uint8_t
    halted,                 \* the program sits in app_assert_status's trap
    advertising,            \* stack: the advertiser is running
    link,                   \* stack: the open connection's handle, or NoLink
    lastEvt,                \* history: the last lifecycle event delivered
    last,                   \* history: the last step taken
    calls,                  \* advertiser / GATT calls of the last step
    sent,                   \* notifications of the last step
    createCount,            \* history: sl_bt_advertiser_create_set calls
    timingCount,            \* history: sl_bt_advertiser_set_timing calls
    bootCount,              \* history: boot events delivered
    startSets,              \* history: handles sl_bt_legacy_advertiser_start got
    onCalls,                \* history: handleNoteOn calls since the last loop
    offCalls,               \* history: handleNoteOff calls since the last loop
    lastOn,                 \* history: the last handleNoteOn call's arguments
    lastOff,                \* history: the last handleNoteOff call's arguments
    polled,                 \* history: onCalls / offCalls the last loop found
    pc,                     \* loop(): the statement the main context is at
    argNote,                \* loop(): the evaluated argument note_to_send
    argVel,                 \* loop(): the evaluated argument note_velocity
    isrCount,               \* history: preempting callback calls so far
    noteSrc,                \* history: the call that wrote note_to_send
    velSrc,                 \* history: the call that wrote note_velocity
    argNoteSrc,             \* history: the call that wrote argNote's value
    argVelSrc,              \* history: the call that wrote argVel's value
    encoded,                \* history: the writers of every packet sent
    pollLog                 \* history: flag and payload accesses of this loop()

progVars == <<conn_handle, init, advertising_set_handle, halted>>
noteVars == <<note_to_send, note_velocity, note_on_event, note_off_event>>
stackVars == <<advertising, link>>
advHist == <<createCount, timingCount, bootCount, startSets>>
noteHist == <<onCalls, offCalls, lastOn, lastOff>>
preemptVars == <<pc, argNote, argVel, isrCount, noteSrc, velSrc, argNoteSrc,
                 argVelSrc, encoded, pollLog>>
vars == <<progVars, noteVars, stackVars, advHist, noteHist,
          lastEvt, last, calls, sent, polled, preemptVars>>

NothingPolled == [on |-> 0, off |-> 0]

\* loop() between two iterations, and the writer of a byte no callback wrote.
Idle == [kind |-> "idle", at |-> "idle"]
NoSrc == [id |-> 0, kind |-> "none"]

Init ==
    /\ conn_handle = NoneHandle
    /\ note_to_send = 0
    /\ note_velocity = 0
    /\ note_on_event = FALSE
    /\ note_off_event = FALSE
    /\ init = TRUE
    /\ advertising_set_handle = NoSet
    /\ halted = FALSE
    /\ advertising = FALSE
    /\ link = NoLink
    /\ lastEvt = "none"
    /\ last = "init"
    /\ calls = <<>>
    /\ sent = <<>>
    /\ createCount = 0
    /\ timingCount = 0
    /\ bootCount = 0
    /\ startSets = {}
    /\ onCalls = 0
    /\ offCalls = 0
    /\ lastOn = NoArgs
    /\ lastOff = NoArgs
    /\ polled = NothingPolled
    /\ pc = Idle
    /\ argNote = 0
    /\ argVel = 0
    /\ isrCount = 0
    /\ noteSrc = NoSrc
    /\ velSrc = NoSrc
    /\ argNoteSrc = NoSrc
    /\ argVelSrc = NoSrc
    /\ encoded = <<>>
    /\ pollLog = <<>>

\* ------------------------------------------------------------- stack calls
\* app_assert_status(sc): TRUE when the macro traps (it logs and spins for
\* ever on a status other than SL_STATUS_OK).
app_assert_status(sc) == sc # SL_STATUS_OK

\* The status the stack returns to the i-th call of a function when its f-th
\* call is the one that fails (f = 0: none fails).
StatusOf(i, f) == IF i = f THEN SL_STATUS_FAIL ELSE SL_STATUS_OK

\* A function is a sequence of calls [op, arg, asserted]; `asserted` says that
\* app_assert_status(sc) follows the call.
Stops(steps, f) ==
    \E i \in 1..Len(steps) : steps[i].asserted /\ app_assert_status(StatusOf(i, f))

Executed(steps, f) ==
    IF Stops(steps, f)
    THEN CHOOSE i \in 1..Len(steps) :
             /\ steps[i].asserted /\ app_assert_status(StatusOf(i, f))
             /\ \A j \in 1..(i - 1) :
                    ~(steps[j].asserted /\ app_assert_status(StatusOf(j, f)))
    ELSE Len(steps)

RunLog(steps, f) ==
    [i \in 1..Executed(steps, f) |->
        [op |-> steps[i].op, arg |-> steps[i].arg, status |-> StatusOf(i, f)]]

CountOp(log, op) == Cardinality({i \in DOMAIN log : log[i].op = op})

\* ble_initialize_gatt_db: its eight calls; the status of
\* sl_bt_gattdb_add_uuid128_characteristic is not asserted.
GattSteps ==
    << [op |-> "sl_bt_gattdb_new_session", arg |-> 0, asserted |-> TRUE],
       [op |-> "sl_bt_gattdb_add_service", arg |-> 0, asserted |-> TRUE],
       [op |-> "sl_bt_gattdb_add_uuid16_characteristic", arg |-> NameLen,
        asserted |-> TRUE],
       [op |-> "sl_bt_gattdb_start_service", arg |-> 0, asserted |-> TRUE],
       [op |-> "sl_bt_gattdb_add_service", arg |-> 0, asserted |-> TRUE],
       [op |-> "sl_bt_gattdb_add_uuid128_characteristic", arg |-> MidiCharMaxLen,
        asserted |-> FALSE],
       [op |-> "sl_bt_gattdb_start_service", arg |-> 0, asserted |-> TRUE],
       [op |-> "sl_bt_gattdb_commit", arg |-> 0, asserted |-> TRUE] >>

\* ble_start_advertising: `if (init)`.
NeedsInit_always == TRUE
NeedsInit == init

\* ble_start_advertising: its calls when the stack would hand out newSet.
AdvSteps(newSet) ==
    LET h == IF NeedsInit THEN newSet ELSE advertising_set_handle
    IN  (IF NeedsInit
         THEN << [op |-> "sl_bt_advertiser_create_set", arg |-> h,
                  asserted |-> TRUE],
                 [op |-> "sl_bt_advertiser_set_timing", arg |-> h,
                  asserted |-> TRUE] >>
         ELSE <<>>)
        \o << [op |-> "sl_bt_legacy_advertiser_generate_data", arg |-> h,
               asserted |-> TRUE],
              [op |-> "sl_bt_legacy_advertiser_start", arg |-> h,
               asserted |-> TRUE] >>

\* ble_start_advertising() run after the calls `before` of the same handler;
\* f is the call of it that fails, newSet the handle the stack would create.
ble_start_advertising(before, newSet, f) ==
    LET steps == AdvSteps(newSet)
        log == RunLog(steps, f)
        stops == Stops(steps, f)
        created == CountOp(log, "sl_bt_advertiser_create_set") > 0
                   /\ log[1].status = SL_STATUS_OK
    IN  /\ calls' = before \o log
        /\ halted' = stops
        /\ advertising_set_handle' =
               IF created THEN newSet ELSE advertising_set_handle
        /\ init' = IF NeedsInit /\ Len(log) > 2 THEN FALSE ELSE init
        /\ advertising' = IF stops THEN advertising ELSE TRUE
        /\ createCount' = createCount + CountOp(log, "sl_bt_advertiser_create_set")
        /\ timingCount' = timingCount + CountOp(log, "sl_bt_advertiser_set_timing")
        /\ startSets' = startSets \cup
               {log[i].arg : i \in {j \in DOMAIN log :
                                       log[j].op = "sl_bt_legacy_advertiser_start"}}

\* ------------------------------------------------------ sl_bt_on_event cases
\* case sl_bt_evt_system_boot_id; fg / fa: the failing call of
\* ble_initialize_gatt_db / ble_start_advertising (0: none).
system_boot(fg, newSet, fa) ==
    /\ pc = Idle
    /\ UNCHANGED preemptVars
    /\ ~halted
    /\ bootCount < MaxBoots
    /\ link = NoLink
    /\ bootCount' = bootCount + 1
    /\ lastEvt' = "boot"
    /\ last' = "boot"
    /\ sent' = <<>>
    /\ polled' = NothingPolled
    /\ IF Stops(GattSteps, fg)
       THEN /\ calls' = RunLog(GattSteps, fg)
            /\ halted' = TRUE
            /\ UNCHANGED <<init, advertising_set_handle, advertising,
                           createCount, timingCount, startSets>>
       ELSE ble_start_advertising(RunLog(GattSteps, fg), newSet, fa)
    /\ UNCHANGED <<conn_handle, link, noteVars, noteHist>>

\* evt->data.evt_connection_opened.connection
OpenedHandle_none(h) == NoneHandle
OpenedHandle(h) == h

\* case sl_bt_evt_connection_opened_id, with connection handle h.
connection_opened(h) ==
    /\ pc = Idle
    /\ UNCHANGED preemptVars
    /\ ~halted
    /\ advertising
    /\ link = NoLink
    /\ conn_handle' = OpenedHandle(h)
    /\ link' = h
    /\ advertising' = FALSE
    /\ lastEvt' = "opened"
    /\ last' = "opened"
    /\ calls' = <<>>
    /\ sent' = <<>>
    /\ polled' = NothingPolled
    /\ UNCHANGED <<init, advertising_set_handle, halted, noteVars, advHist,
                   noteHist>>

\* case sl_bt_evt_connection_closed_id.
connection_closed(newSet, fa) ==
    /\ pc = Idle
    /\ UNCHANGED preemptVars
    /\ ~halted
    /\ link # NoLink
    /\ link' = NoLink
    /\ lastEvt' = "closed"
    /\ last' = "closed"
    /\ sent' = <<>>
    /\ polled' = NothingPolled
    /\ ble_start_advertising(<<>>, newSet, fa)
    /\ UNCHANGED <<conn_handle, bootCount, noteVars, noteHist>>

\* case sl_bt_evt_gatt_server_attribute_value_id and default.
other_event_clears ==
    /\ pc = Idle
    /\ UNCHANGED preemptVars
    /\ ~halted
    /\ last' = "other"
    /\ calls' = <<>>
    /\ sent' = <<>>
    /\ polled' = NothingPolled
    /\ conn_handle' = NoneHandle
    /\ UNCHANGED <<init, advertising_set_handle, halted, noteVars, stackVars,
                   advHist, noteHist, lastEvt>>
other_event ==
    /\ pc = Idle
    /\ UNCHANGED preemptVars
    /\ ~halted
    /\ last' = "other"
    /\ calls' = <<>>
    /\ sent' = <<>>
    /\ polled' = NothingPolled
    /\ UNCHANGED <<progVars, noteVars, stackVars, advHist, noteHist, lastEvt>>

\* ------------------------------------------------------------ note capture
\* The MIDI library calls handleNoteOn / handleNoteOff from midiA.read(); as
\* registered callbacks they are the producer entry points of the capture, and
\* up to MaxProducerCalls calls of a kind may arrive between two polls.

\* handleNoteOn(channel, pitch, velocity).
handleNoteOn(pitch, velocity) ==
    /\ pc = Idle
    /\ UNCHANGED preemptVars
    /\ ~halted
    /\ onCalls < MaxProducerCalls
    /\ note_to_send' = pitch
    /\ note_velocity' = velocity
    /\ note_on_event' = TRUE
    /\ onCalls' = onCalls + 1
    /\ lastOn' = <<pitch, velocity>>
    /\ last' = "handleNoteOn"
    /\ calls' = <<>>
    /\ sent' = <<>>
    /\ polled' = NothingPolled
    /\ UNCHANGED <<progVars, stackVars, advHist, lastEvt, note_off_event,
                   offCalls, lastOff>>

\* handleNoteOff(channel, pitch, velocity).
handleNoteOff(pitch, velocity) ==
    /\ pc = Idle
    /\ UNCHANGED preemptVars
    /\ ~halted
    /\ offCalls < MaxProducerCalls
    /\ note_to_send' = pitch
    /\ note_velocity' = velocity
    /\ note_off_event' = TRUE
    /\ offCalls' = offCalls + 1
    /\ lastOff' = <<pitch, velocity>>
    /\ last' = "handleNoteOff"
    /\ calls' = <<>>
    /\ sent' = <<>>
    /\ polled' = NothingPolled
    /\ UNCHANGED <<progVars, stackVars, advHist, lastEvt, note_on_event,
                   onCalls, lastOn>>

\* --------------------------------------------------------------- main loop
\* `note_on_event = false` / `note_off_event = false`
ClearedFlag_kept == TRUE
ClearedFlag == FALSE

\* loop(): the note-on block runs before the note-off block.
SentInOrder_offFirst(onPkts, offPkts) == offPkts \o onPkts
SentInOrder(onPkts, offPkts) == onPkts \o offPkts

\* loop(): the callbacks midiA.read() makes are the handleNoteOn and
\* handleNoteOff steps before it.  t1 / t2: the time midi_note_on /
\* midi_note_off reads.
loop(t1, t2) ==
    /\ pc = Idle
    /\ UNCHANGED preemptVars
    /\ ~halted
    /\ sent' = SentInOrder(
           IF note_on_event
           THEN <<midi_note_on(note_to_send, note_velocity, t1, conn_handle)>>
           ELSE <<>>,
           IF note_off_event
           THEN <<midi_note_off(note_to_send, note_velocity, t2, conn_handle)>>
           ELSE <<>>)
    /\ note_on_event' = (IF note_on_event THEN ClearedFlag ELSE note_on_event)
    /\ note_off_event' = (IF note_off_event THEN ClearedFlag ELSE note_off_event)
    /\ polled' = [on |-> onCalls, off |-> offCalls]
    /\ onCalls' = 0
    /\ offCalls' = 0
    /\ last' = "loop"
    /\ calls' = <<>>
    /\ UNCHANGED <<progVars, stackVars, advHist, lastEvt, note_to_send,
                   note_velocity, lastOn, lastOff>>

\* ------------------------------------------------------------ specification
\* The inputs a step can tell apart: the handle the stack creates matters only
\* when a set is created, the failing call only among the calls made, and the
\* time only when a packet is built.
SetChoices == IF NeedsInit THEN AdvSets ELSE {advertising_set_handle}
AdvFailChoices == 0..Len(AdvSteps(NoSet))
BootFailChoices(fg) == IF Stops(GattSteps, fg) THEN {0} ELSE AdvFailChoices
TimeChoices(pending) == IF pending THEN Times ELSE {<<0, 0>>}

Next ==
    \/ \E fg \in 0..Len(GattSteps), newSet \in SetChoices :
           \E fa \in BootFailChoices(fg) : system_boot(fg, newSet, fa)
    \/ \E h \in Handles : connection_opened(h)
    \/ \E newSet \in SetChoices, fa \in AdvFailChoices :
           connection_closed(newSet, fa)
    \/ other_event
    \/ \E a \in NoteArgs : handleNoteOn(a[1], a[2])
    \/ \E a \in NoteArgs : handleNoteOff(a[1], a[2])
    \/ \E t1 \in TimeChoices(note_on_event), t2 \in TimeChoices(note_off_event) :
           loop(t1, t2)

Spec == Init /\ [][Next]_vars

\* The spec's ConnectionState, read off the last lifecycle event handled.
State ==
    IF halted THEN "Halted"
    ELSE CASE lastEvt = "none" -> "Idle"
           [] lastEvt \in {"boot", "closed"} -> "Advertising"
           [] lastEvt = "opened" -> "Connected"

TypeOK ==
    /\ conn_handle \in Handles \cup {NoneHandle}
    /\ note_on_event \in BOOLEAN /\ note_off_event \in BOOLEAN
    /\ advertising_set_handle \in AdvSets \cup {NoSet}
    /\ onCalls \in 0..MaxProducerCalls /\ offCalls \in 0..MaxProducerCalls
    /\ note_on_event = (onCalls > 0)
    /\ note_off_event = (offCalls > 0)

\* ------------------------------------------ loop() statement by statement
\* The callbacks run to completion in interrupt context and may preempt
\* loop() between any two of its statements; the stack's events are handled
\* between iterations and touch none of the variables of the hand-off.
Flag(k) == IF k = "on" THEN note_on_event ELSE note_off_event

\* After the note-on block comes the test of note_off_event; after the
\* note-off block loop() returns.
After(k) == IF k = "on" THEN [kind |-> "off", at |-> "test"] ELSE Idle

\* handleNoteOn / handleNoteOff as an interrupt: k is the callback's kind.
handleNote_preempting(k, pitch, velocity) ==
    /\ ~halted
    /\ isrCount < MaxIsrCalls
    /\ note_to_send' = pitch
    /\ note_velocity' = velocity
    /\ note_on_event' = IF k = "on" THEN TRUE ELSE note_on_event
    /\ note_off_event' = IF k = "off" THEN TRUE ELSE note_off_event
    /\ isrCount' = isrCount + 1
    /\ noteSrc' = [id |-> isrCount + 1, kind |-> k]
    /\ velSrc' = [id |-> isrCount + 1, kind |-> k]
    /\ UNCHANGED <<progVars, stackVars, advHist, noteHist, lastEvt, last,
                   calls, sent, polled, pc, argNote, argVel, argNoteSrc,
                   argVelSrc, encoded, pollLog>>

\* loop(): midiA.read(), with no byte to parse in the main context.
loop_read ==
    /\ ~halted
    /\ pc = Idle
    /\ pc' = [kind |-> "on", at |-> "test"]
    /\ sent' = <<>>
    /\ pollLog' = <<>>
    /\ UNCHANGED <<progVars, noteVars, stackVars, advHist, noteHist, lastEvt,
                   last, calls, polled, argNote, argVel, isrCount, noteSrc,
                   velSrc, argNoteSrc, argVelSrc, encoded>>

\* if (note_on_event) / if (note_off_event)
loop_test(k) ==
    /\ pc = [kind |-> k, at |-> "test"]
    /\ pc' = IF Flag(k) THEN [kind |-> k, at |-> "clear"] ELSE After(k)
    /\ UNCHANGED <<progVars, noteVars, stackVars, advHist, noteHist, lastEvt,
                   last, calls, sent, polled, argNote, argVel, isrCount,
                   noteSrc, velSrc, argNoteSrc, argVelSrc, encoded, pollLog>>

\* note_on_event = false; / note_off_event = false;
loop_clear(k) ==
    /\ pc = [kind |-> k, at |-> "clear"]
    /\ note_on_event' = IF k = "on" THEN ClearedFlag ELSE note_on_event
    /\ note_off_event' = IF k = "off" THEN ClearedFlag ELSE note_off_event
    /\ pc' = [kind |-> k, at |-> "args"]
    /\ pollLog' = Append(pollLog, <<"clear", k>>)
    /\ UNCHANGED <<progVars, note_to_send, note_velocity, stackVars, advHist,
                   noteHist, lastEvt, last, calls, sent, polled, argNote,
                   argVel, isrCount, noteSrc, velSrc, argNoteSrc, argVelSrc,
                   encoded>>

\* The call's argument note_to_send is evaluated, before or after the
\* argument note_velocity: the order of evaluation is unspecified.
loop_eval_note(k) ==
    /\ pc.kind = k
    /\ pc.at \in {"args", "args_velocity"}
    /\ argNote' = note_to_send
    /\ argNoteSrc' = noteSrc
    /\ pc' = [kind |-> k, at |-> IF pc.at = "args" THEN "args_note" ELSE "call"]
    /\ pollLog' = Append(pollLog, <<"copy_note", k>>)
    /\ UNCHANGED <<progVars, noteVars, stackVars, advHist, noteHist, lastEvt,
                   last, calls, sent, polled, argVel, isrCount, noteSrc,
                   velSrc, argVelSrc, encoded>>

loop_eval_velocity(k) ==
    /\ pc.kind = k
    /\ pc.at \in {"args", "args_note"}
    /\ argVel' = note_velocity
    /\ argVelSrc' = velSrc
    /\ pc' = [kind |-> k,
              at |-> IF pc.at = "args" THEN "args_velocity" ELSE "call"]
    /\ pollLog' = Append(pollLog, <<"copy_velocity", k>>)
    /\ UNCHANGED <<progVars, noteVars, stackVars, advHist, noteHist, lastEvt,
                   last, calls, sent, polled, argNote, isrCount, noteSrc,
                   velSrc, argNoteSrc, encoded>>

\* midi_note_on(...) / midi_note_off(...) with the evaluated arguments.
loop_call(k, t) ==
    /\ pc = [kind |-> k, at |-> "call"]
    /\ sent' = Append(sent, IF k = "on"
                            THEN midi_note_on(argNote, argVel, t, conn_handle)
                            ELSE midi_note_off(argNote, argVel, t, conn_handle))
    /\ encoded' = Append(encoded, [kind |-> k, note |-> argNoteSrc,
                                   velocity |-> argVelSrc])
    /\ argNote' = 0
    /\ argVel' = 0
    /\ argNoteSrc' = NoSrc
    /\ argVelSrc' = NoSrc
    /\ pc' = After(k)
    /\ UNCHANGED <<progVars, noteVars, stackVars, advHist, noteHist, lastEvt,
                   last, calls, polled, isrCount, noteSrc, velSrc, pollLog>>

Kinds == {"on", "off"}

NextPreempt ==
    \/ \E k \in Kinds : \E a \in NoteArgs : handleNote_preempting(k, a[1], a[2])
    \/ loop_read
    \/ \E k \in Kinds : loop_test(k)
    \/ \E k \in Kinds : loop_clear(k)
    \/ \E k \in Kinds : loop_eval_note(k)
    \/ \E k \in Kinds : loop_eval_velocity(k)
    \/ \E k \in Kinds : \E t \in Times : loop_call(k, t)

SpecPreempt == Init /\ [][NextPreempt]_vars

\* ------------------------------------------------------------------ claims
OnPackets == {i \in DOMAIN sent : sent[i].fn = "midi_note_on"}
OffPackets == {i \in DOMAIN sent : sent[i].fn = "midi_note_off"}
Ops(log) == [i \in DOMAIN log |-> log[i].op]

\* C1: sl_bt_gatt_server_send_notification is called only while a peer is
\* connected and conn_handle is not the 0xFF sentinel; a note polled while Idle
\* or Advertising builds and sends nothing.
C1_SendOnlyWhileConnected ==
    \A i \in DOMAIN sent : State = "Connected" /\ sent[i].conn # NoneHandle

\* C2: conn_handle differs from the 0xFF sentinel only while the state is
\* Connected: connectionClosed puts the sentinel back.
C2_HandleNoneUnlessConnected ==
    conn_handle # NoneHandle => State = "Connected"

\* The advertiser calls of the last step all name the stored set handle.
CallsUseStoredSet ==
    \A i \in DOMAIN calls :
        calls[i].op \in {"sl_bt_advertiser_set_timing",
                         "sl_bt_legacy_advertiser_generate_data",
                         "sl_bt_legacy_advertiser_start"}
            => calls[i].arg = advertising_set_handle

\* The set is created and timed at most once, and every advertising start
\* was given the same set handle.
CreatedAtMostOnce ==
    /\ createCount <= 1
    /\ timingCount <= 1
    /\ Cardinality(startSets) <= 1
    /\ CallsUseStoredSet

\* C3 as stated: every boot event leaves the machine Advertising, and the set
\* is created and timed at most once with its handle reused by every start.
C3_BootAdvertisesCreateOnce_Stated ==
    /\ last = "boot" => State = "Advertising"
    /\ CreatedAtMostOnce

\* C3, amended: a boot event whose handler is not stopped by app_assert_status
\* leaves the machine Advertising, with sl_bt_legacy_advertiser_start its last
\* call and the advertiser running; otherwise the program is halted.  The set
\* is created and timed at most once and every start is given the same handle.
C3_BootAdvertisesCreateOnce ==
    /\ last = "boot" /\ ~halted =>
           /\ State = "Advertising"
           /\ advertising
           /\ calls[Len(calls)] =
                  [op |-> "sl_bt_legacy_advertiser_start",
                   arg |-> advertising_set_handle, status |-> SL_STATUS_OK]
    /\ last = "boot" /\ halted => calls[Len(calls)].status # SL_STATUS_OK
    /\ CreatedAtMostOnce

\* The boot event was delivered twice, a connection opened and closed, and the
\* one set created is the one restarted.
C3_Witness ==
    /\ bootCount = 2
    /\ last = "closed"
    /\ ~halted
    /\ createCount = 1
    /\ startSets = {advertising_set_handle}

\* C4: connectionOpened(h) leaves the machine Connected with conn_handle = h
\* (h is the stack's open connection, link), and every notification sent
\* until the next lifecycle event is addressed to h.
C4_OpenedHandleStored ==
    /\ last = "opened" => State = "Connected"
    /\ State = "Connected" =>
           /\ conn_handle = link
           /\ link \in Handles
           /\ \A i \in DOMAIN sent : sent[i].conn = link

\* Two notifications were sent on the connection with handle 2.
C4_Witness ==
    /\ State = "Connected"
    /\ link = 2
    /\ Len(sent) = 2

\* C5: a connectionClosed event moves the machine to Advertising and makes
\* exactly the calls generate-data then start, and no create-set / set-timing.
C5_ClosedRestartsOnePair ==
    last = "closed" =>
        /\ State = "Advertising"
        /\ Ops(calls) = << "sl_bt_legacy_advertiser_generate_data",
                           "sl_bt_legacy_advertiser_start" >>

\* The claim's t = nowMillis & 0x1FFF of a sent packet.
ClaimT(p) == Value32(And32(p.now, <<0, 8191>>))

Shl(a, n) == a * Pow2(n)

\* The timestamp a client recovers from a packet.
Recovered(p) ==
    BitOr(Shl(BitAnd(p.payload[1], 63), 7), BitAnd(p.payload[2], 63))

C8_StatusAndPassThrough ==
    \A i \in DOMAIN sent :
        LET p == sent[i]
            t == ClaimT(p)
        IN  /\ p.len = 5
            /\ Len(p.payload) = 5
            /\ p.payload =
                   << BitOr(128, Shr(t, 7)), BitOr(128, BitAnd(t, 63)),
                      IF p.fn = "midi_note_on" THEN 144 ELSE 128,
                      note_to_send, note_velocity >>
            /\ p.note = note_to_send
            /\ p.velocity = note_velocity

\* A note-on and a note-off were both encoded with pitch 42, velocity 127.
C8_Witness ==
    /\ OnPackets # {}
    /\ OffPackets # {}
    /\ note_to_send = 42
    /\ note_velocity = 127

\* C9: after handleNoteOn was called two or more times, the next loop sends
\* exactly one note-on carrying the last handleNoteOn call's (pitch,
\* velocity); a loop with no new call sends no note-on.  Likewise note-off.
C9_LastWriteWins ==
    last = "loop" =>
        /\ polled.on >= 2 =>
               /\ Cardinality(OnPackets) = 1
               /\ \A i \in OnPackets :
                      <<sent[i].payload[4], sent[i].payload[5]>> = lastOn
        /\ polled.on = 0 => OnPackets = {}
        /\ polled.off >= 2 =>
               /\ Cardinality(OffPackets) = 1
               /\ \A i \in OffPackets :
                      <<sent[i].payload[4], sent[i].payload[5]>> = lastOff
        /\ polled.off = 0 => OffPackets = {}

\* Producer calls of a kind that the last loop did not turn into a packet.
LostOn == polled.on - Cardinality(OnPackets)
LostOff == polled.off - Cardinality(OffPackets)

\* After a loop iteration both flags are clear and each kind captured before
\* it was encoded exactly once in it.
PolledAndEncoded ==
    /\ ~note_on_event
    /\ ~note_off_event
    /\ Cardinality(OnPackets) = (IF polled.on > 0 THEN 1 ELSE 0)
    /\ Cardinality(OffPackets) = (IF polled.off > 0 THEN 1 ELSE 0)

\* C10 as stated: after a loop iteration no flag set before it is still set,
\* each captured kind was encoded in it, and at most one event per kind was
\* lost.
C10_PolledSameIteration_Stated ==
    last = "loop" =>
        /\ PolledAndEncoded
        /\ LostOn <= 1
        /\ LostOff <= 1

\* C10, amended: after a loop iteration no flag set before it is still set and
\* each captured kind was encoded exactly once in it; of the producer calls of
\* a kind made since the previous iteration all but one are lost.
C10_PolledSameIteration ==
    last = "loop" =>
        /\ PolledAndEncoded
        /\ polled.on > 0 => LostOn = polled.on - 1
        /\ polled.off > 0 => LostOff = polled.off - 1

\* A loop iteration that followed three handleNoteOn calls and lost two.
C10_Witness ==
    /\ last = "loop"
    /\ polled.on = 3
    /\ LostOn = 2
    /\ polled.off >= 1

GattOps ==
    {"sl_bt_gattdb_new_session", "sl_bt_gattdb_add_service",
     "sl_bt_gattdb_add_uuid16_characteristic", "sl_bt_gattdb_start_service",
     "sl_bt_gattdb_add_uuid128_characteristic", "sl_bt_gattdb_commit"}
FailedCalls == {i \in DOMAIN calls : calls[i].status # SL_STATUS_OK}

\* C11: a non-success status of generate-data or start while re-advertising
\* after a disconnect does not halt the system.
C11_ReadvertiseFailureNonFatal ==
    last = "closed" /\ FailedCalls # {} => ~halted

\* C12: a non-success status of any setup call of the boot handler (each
\* GATT database call, the MIDI characteristic included, set creation, timing)
\* halts: it is the last call made and advertising is not started.
C12_SetupFailureHalts ==
    last = "boot" =>
        \A i \in FailedCalls :
            /\ i = Len(calls)
            /\ halted
            /\ CountOp(calls, "sl_bt_legacy_advertiser_start") = 0

\* C13: no terminal state: once a connection has closed the machine is not
\* halted and the advertiser runs again, so that a connection can open.
C13_NoTerminalState ==
    lastEvt = "closed" => ~halted /\ advertising

\* C14: the two kinds' pending slots are independent: the note-on a loop
\* sends carries the last handleNoteOn call's payload whatever handleNoteOff
\* calls were made meanwhile, and symmetrically.
C14_SlotsIndependent ==
    last = "loop" =>
        /\ \A i \in OnPackets : <<sent[i].note, sent[i].velocity>> = lastOn
        /\ \A i \in OffPackets : <<sent[i].note, sent[i].velocity>> = lastOff

\* C16: the attribute table is built for the first boot event only: a later
\* boot event makes no GATT database call.
C16_GattDbBuiltOnce ==
    last = "boot" /\ bootCount >= 2 =>
        \A i \in DOMAIN calls : calls[i].op \notin GattOps

\* C17: the MIDI characteristic is created with a fixed value length of 5, and
\* no notification is longer than the characteristic's maximum length.
C17_CharacteristicHoldsPacket ==
    /\ \A i \in DOMAIN calls :
           calls[i].op = "sl_bt_gattdb_add_uuid128_characteristic"
               => calls[i].arg = NotifyLen
    /\ \A i \in DOMAIN sent : sent[i].len <= MidiCharMaxLen

\* C19: a loop iteration that starts with both flags set sends exactly the
\* note-on and then the note-off, whichever callback ran first, and leaves
\* both flags clear.
C19_NoteOnBeforeNoteOff ==
    last = "loop" /\ polled.on > 0 /\ polled.off > 0 =>
        /\ Len(sent) = 2
        /\ sent[1].fn = "midi_note_on"
        /\ sent[2].fn = "midi_note_off"
        /\ ~note_on_event
        /\ ~note_off_event

\* Both flags were set with handleNoteOff called first (the slot holds the
\* note-on's payload), and the loop has run.
C19_Witness ==
    /\ last = "loop"
    /\ polled.on > 0
    /\ polled.off > 0
    /\ lastOn # lastOff
    /\ <<note_to_send, note_velocity>> = lastOn
    /\ Len(sent) = 2

\* C20: an event other than boot, connection opened and connection closed
\* changes neither conn_handle, the advertising set's state, the pending flags
\* nor the payload, and calls no stack primitive.
C20_OtherEventFrame ==
    [][last' = "other" =>
           /\ UNCHANGED <<conn_handle, init, advertising_set_handle,
                          note_to_send, note_velocity, note_on_event,
                          note_off_event, advertising, link, createCount,
                          timingCount, startSets>>
           /\ calls' = <<>>
           /\ sent' = <<>>]_vars

\* Another event was handled while a connection was open and a note pending.
C20_Witness ==
    /\ last = "other"
    /\ conn_handle # NoneHandle
    /\ note_on_event
    /\ ~init

\* C15: in every poll the consumer clears a kind's pending flag only after it
\* has copied both the pitch and the velocity out of the slot.
C15_CopyBeforeClear ==
    \A i \in DOMAIN pollLog :
        pollLog[i][1] = "clear" =>
            /\ \E j \in 1..(i - 1) : pollLog[j] = <<"copy_note", pollLog[i][2]>>
            /\ \E j \in 1..(i - 1) :
                   pollLog[j] = <<"copy_velocity", pollLog[i][2]>>

\* C18: with callbacks preempting loop() anywhere, every packet sent carries
\* a pitch and a velocity written by one and the same callback call, of the
\* packet's kind, and no callback call is encoded into two packets.
C18_PreemptionSafe ==
    /\ \A i \in DOMAIN encoded :
           /\ encoded[i].note = encoded[i].velocity
           /\ encoded[i].note.kind = encoded[i].kind
    /\ \A i, j \in DOMAIN encoded :
           i # j => encoded[i].note.id # encoded[j].note.id

====
